---- MODULE Spec2Model ----
(***************************************************************************)
(* Salary prediction: the trainer (class Model of main.py), the script     *)
(* Run.run_cv that drives it, and the hyperparameter record written by     *)
(* tuning_hyperparams.py and read back by Run._get_hyperparams.            *)
(*                                                                         *)
(* Estimators are opaque fit/predict services.  A fit on a fold yields a   *)
(* validation loss (a number drawn from Losses) or raises.  Losses are     *)
(* exact numbers and a mean is the exact rational sum/count: the rounding  *)
(* of floating-point means is not modelled.                                *)
(***************************************************************************)
EXTENDS Integers, Sequences, FiniteSets

\* ---------------------------------------------------------------- bounds
NumEstimators == 3      \* estimator objects a caller has at hand: 1..NumEstimators
MaxModels == 2          \* registered estimators (length of Model.models)
MaxFolds == 2           \* n_folds is drawn from 1..MaxFolds
MaxLoss == 1            \* a fold's loss is drawn from 0..MaxLoss
MaxFits == 4            \* fits that return during cross-validation on one trainer
NTest == 2              \* rows of the test table

\* ------------------------------------------------------- program constants
None == 0               \* Python's None where an estimator object is expected
Inf == -1               \* np.inf: stands above every loss (see Less)

Estimators == 1..NumEstimators
Losses == 0..MaxLoss
Families == {"LGBMRegressor", "RandomForestRegressor"}

\* type(model).__name__ of an estimator object: the odd objects are
\* lgb.LGBMRegressor instances, the even ones RandomForestRegressor instances.
Family(e) == IF e % 2 = 1 THEN "LGBMRegressor" ELSE "RandomForestRegressor"

VARIABLES
    models,          \* Model.models: the registered estimators, in order; <<>> is None
    n_folds,         \* Model.n_folds
    mean_mse,        \* Model.mean_mse: dict in insertion order, a sequence of items
    fold_mse,        \* Model.fold_mse: list of losses
    best_loss_fold,  \* Model.best_loss_fold
    best_model,      \* Model.best_model
    predictions,     \* Model.predictions: <<>> is None until predict has returned
    has_predictions, \* whether Model.predictions has been assigned
    fitted,          \* the fitted state carried by each estimator object
    ckpt,            \* model_dir/<family>_best.sav, per family
    pred_file,       \* model_dir/predictions.csv
    param_file,      \* model_dir/best_hyperparams.json
    pc,              \* "idle", or "cv" while cross_validate() is running
    cv_i,            \* cross_validate: index of `model` in models
    cv_fold,         \* cross_validate: `fold`
    raised,          \* exception of the last operation, "none" if it returned
    last_op,         \* the operation called last (with its argument where it has a flag)
    message,         \* the save message last printed by _print_stats
    runs,            \* history: (models, mean_mse) at the end of each completed call
    loss_table,      \* deterministic estimators: the loss of (estimator, fold), once known
    study,           \* optimizer: trials run and the best trial so far
    est_params,      \* constructor arguments of the estimator objects built by Run._models
    run_pc           \* Run.run_cv: "off" (not started), "loaded", "cv", "raised"

model_vars == <<models, n_folds, mean_mse, fold_mse, best_loss_fold, best_model,
                predictions, has_predictions>>
cv_vars == <<pc, cv_i, cv_fold, message, runs>>
file_vars == <<ckpt, pred_file, param_file>>
vars == <<models, n_folds, mean_mse, fold_mse, best_loss_fold, best_model,
          predictions, has_predictions, fitted, ckpt, pred_file, param_file,
          pc, cv_i, cv_fold, raised, last_op, message, runs, loss_table,
          study, est_params, run_pc>>

\* ------------------------------------------------------------ arithmetic
RECURSIVE Sum(_)
Sum(s) == IF s = <<>> THEN 0 ELSE Head(s) + Sum(Tail(s))

\* np.mean(list): the exact rational Sum/Len as numerator and denominator.
Mean(s) == [num |-> Sum(s), den |-> Len(s)]

RatLess(a, b) == a.num * b.den < b.num * a.den
RatEq(a, b) == a.num * b.den = b.num * a.den

\* loss < self.best_loss_fold, with np.inf above every loss.
Less(loss, best) == best = Inf \/ loss < best

\* ------------------------------------------------------------ Python dict
\* A dict is the sequence of its items in insertion order.
Keys(d) == {d[i].key : i \in DOMAIN d}
Index(d, k) == CHOOSE i \in DOMAIN d : d[i].key = k
Get(d, k) == d[Index(d, k)].val

\* d[k] = v: an existing key keeps its place, a new key goes last.
SetItem(d, k, v) ==
    IF k \in Keys(d)
    THEN [d EXCEPT ![Index(d, k)] = [key |-> k, val |-> v]]
    ELSE Append(d, [key |-> k, val |-> v])

\* ------------------------------------------------------------ estimators
Unfitted == [kind |-> "unfitted", fold |-> 0]
FoldFit(fold) == [kind |-> "fold", fold |-> fold]    \* fitted on all folds but `fold`
FullFit == [kind |-> "full", fold |-> 0]             \* fitted on the whole training set

NoFile == [exists |-> FALSE, model |-> None, state |-> Unfitted, loss |-> 0]

\* joblib.dump(model, path): the file holds the estimator object with the
\* fitted state it carries now; loss is the validation loss of that fit.
Dump(model, state, loss) ==
    [exists |-> TRUE, model |-> model, state |-> state, loss |-> loss]

\* ---------------------------------------------------------------- Model
\* Model.__init__(data, models, n_folds).
ModelInit(ms, k) ==
    /\ models = ms
    /\ n_folds = k
    /\ mean_mse = <<>>
    /\ fold_mse = <<>>
    /\ best_loss_fold = Inf
    /\ best_model = None
    /\ predictions = <<>>
    /\ has_predictions = FALSE

\* Model.select_best_model's min(self.mean_mse, key=self.mean_mse.get): the
\* keys are visited in insertion order and a later key replaces the best one
\* only when its value is strictly smaller.
RECURSIVE MinFrom(_, _, _)
MinFrom(d, i, best) ==
    IF i > Len(d) THEN best
    ELSE MinFrom(d, i + 1, IF RatLess(d[i].val, Get(d, best)) THEN d[i].key ELSE best)

\* A variant of min() that lets a later key win a tie.
RECURSIVE MinFromLast(_, _, _)
MinFromLast(d, i, best) ==
    IF i > Len(d) THEN best
    ELSE MinFromLast(d, i + 1, IF RatLess(Get(d, best), d[i].val) THEN best ELSE d[i].key)

PyMinLast(d) == MinFromLast(d, 2, d[1].key)

PyMin(d) == MinFrom(d, 2, d[1].key)

\* Model._save_model(loss, model): the tracker, the family's checkpoint file
\* and the returned message.
save_model(loss, model, state) ==
    IF Less(loss, best_loss_fold)
    THEN [best |-> loss,
          files |-> [ckpt EXCEPT ![Family(model)] = Dump(model, state, loss)],
          msg |-> "Model saved"]
    ELSE [best |-> best_loss_fold, files |-> ckpt, msg |-> "Loss didn't improve!"]

\* What the last statement of the outer loop body stores: np.mean(self.fold_mse).
ModelScore(losses) == Mean(losses)

\* Model.add_model(model)
add_model_body(e) ==
    /\ pc = "idle"
    /\ Len(models) < MaxModels
    /\ models' = Append(models, e)
    /\ raised' = "none"
    /\ last_op' = "add_model"
    /\ UNCHANGED <<n_folds, mean_mse, fold_mse, best_loss_fold, best_model,
                   predictions, has_predictions, fitted, ckpt, pred_file,
                   pc, cv_i, cv_fold, message, runs>>

\* Model.cross_validate(), entry: iterating over models=None raises TypeError;
\* otherwise the loops start at the first model and fold 0.  A call is made
\* only while its fits stay within MaxFits.
cross_validate_body ==
    /\ pc = "idle"
    /\ Len(fold_mse) + Len(models) * n_folds <= MaxFits
    /\ last_op' = "cross_validate"
    /\ IF models = <<>>
       THEN /\ raised' = "TypeError"
            /\ UNCHANGED <<pc, cv_i, cv_fold>>
       ELSE /\ raised' = "none"
            /\ pc' = "cv"
            /\ cv_i' = 1
            /\ cv_fold' = 0
    /\ UNCHANGED <<model_vars, fitted, ckpt, pred_file, message, runs>>

\* One iteration of the inner loop of cross_validate() in which fit and
\* predict return and the fold's loss is `loss`; after the last fold, the two
\* statements that close the outer loop body, and the move to the next model
\* or the return.
Fold(loss) ==
    /\ pc = "cv"
    /\ LET model == models[cv_i]
           state == FoldFit(cv_fold)
           saved == save_model(loss, model, state)
           losses == Append(fold_mse, loss)
           last_fold == cv_fold + 1 = n_folds
           last_model == cv_i = Len(models)
           scores == SetItem(mean_mse, model, ModelScore(losses))
       IN  /\ fitted' = [fitted EXCEPT ![model] = state]
           /\ ckpt' = saved.files
           /\ message' = saved.msg
           /\ fold_mse' = losses
           /\ best_loss_fold' = IF last_fold THEN Inf ELSE saved.best
           /\ mean_mse' = IF last_fold THEN scores ELSE mean_mse
           /\ cv_fold' = IF last_fold THEN 0 ELSE cv_fold + 1
           /\ cv_i' = IF last_fold /\ ~last_model THEN cv_i + 1 ELSE cv_i
           /\ pc' = IF last_fold /\ last_model THEN "idle" ELSE "cv"
           /\ runs' = IF last_fold /\ last_model
                      THEN Append(runs, [models |-> models, mean_mse |-> scores])
                      ELSE runs
    /\ UNCHANGED <<models, n_folds, best_model, predictions, has_predictions,
                   pred_file, raised, last_op>>

\* A variant in which the failing estimator's mean is stored on the way out.
RaiseRecorded(stage) ==
    /\ pc = "cv"
    /\ pc' = "idle"
    /\ raised' = "FitError"
    /\ mean_mse' = SetItem(mean_mse, models[cv_i], Mean(fold_mse))
    /\ UNCHANGED <<models, n_folds, fold_mse, best_loss_fold, best_model, predictions,
                   has_predictions, fitted, ckpt, pred_file, cv_i, cv_fold, last_op,
                   message, runs>>

\* model.fit or model.predict raises inside _run_model_cv: nothing catches it,
\* so cross_validate() ends there.  When predict raises the fit has been done.
Raise(stage) ==
    /\ pc = "cv"
    /\ pc' = "idle"
    /\ raised' = "FitError"
    /\ fitted' = IF stage = "predict"
                 THEN [fitted EXCEPT ![models[cv_i]] = FoldFit(cv_fold)]
                 ELSE fitted
    /\ UNCHANGED <<model_vars, ckpt, pred_file, cv_i, cv_fold, last_op, message,
                   runs>>

\* Model.select_best_model(): min() of an empty dict raises ValueError.
select_best_model_body ==
    /\ pc = "idle"
    /\ last_op' = "select_best_model"
    /\ IF mean_mse = <<>>
       THEN /\ raised' = "ValueError"
            /\ UNCHANGED best_model
       ELSE /\ raised' = "none"
            /\ best_model' = PyMin(mean_mse)
    /\ UNCHANGED <<models, n_folds, mean_mse, fold_mse, best_loss_fold,
                   predictions, has_predictions, fitted, ckpt, pred_file,
                   cv_vars>>

\* ------------------------------------------------------------ test table
\* test_df["jobId"], in the table's row order (the ids are not sorted).
job_ids == [i \in 1..NTest |-> NTest + 1 - i]

\* What best_model.predict(test_df[features]) may return.  The estimator is
\* opaque: the array may be of the table's length or one off.  Its values are
\* a function of the estimator, of its fitted state and of the row, and differ
\* from row to row.
Predict(model, state, n) ==
    [i \in 1..n |-> 100 * model + 10 * (IF state.kind = "full" THEN 9 ELSE state.fold) + i]

PredLengths == (NTest - 1)..(NTest + 1)

\* A variant of the results table with the rows sorted by id.
ResultsSorted(ids, preds) == [i \in 1..Len(ids) |-> <<i, preds[i]>>]

\* pd.DataFrame({"jobId": job_ids, "predicted_salary": predictions}) written by
\* to_csv(index=False): one row per position, id first.
Results(ids, preds) == [i \in 1..Len(ids) |-> <<ids[i], preds[i]>>]

NoPredictions == [exists |-> FALSE, rows |-> <<>>]

\* Model.best_model_fit(): None has no attribute fit.
best_model_fit_body ==
    /\ pc = "idle"
    /\ last_op' = "best_model_fit"
    /\ IF best_model = None
       THEN /\ raised' = "AttributeError"
            /\ UNCHANGED fitted
       ELSE /\ raised' = "none"
            /\ fitted' = [fitted EXCEPT ![best_model] = FullFit]
    /\ UNCHANGED <<model_vars, ckpt, pred_file, cv_vars>>

\* Model.best_model_predictions(save_predictions), predict returning n values.
\* The assert comes after self.predictions is assigned and before anything is
\* written.
best_model_predictions_body(save_predictions, n) ==
    /\ pc = "idle"
    /\ last_op' = IF save_predictions THEN "best_model_predictions(True)"
                  ELSE "best_model_predictions(False)"
    /\ IF best_model = None
       THEN /\ raised' = "AttributeError"
            /\ UNCHANGED <<predictions, has_predictions, pred_file>>
       ELSE /\ predictions' = Predict(best_model, fitted[best_model], n)
            /\ has_predictions' = TRUE
            /\ IF save_predictions
               THEN IF Len(job_ids) = Len(predictions')
                    THEN /\ raised' = "none"
                         /\ pred_file' = [exists |-> TRUE,
                                          rows |-> Results(job_ids, predictions')]
                    ELSE /\ raised' = "AssertionError"
                         /\ UNCHANGED pred_file
               ELSE /\ raised' = "none"
                    /\ UNCHANGED pred_file
    /\ UNCHANGED <<models, n_folds, mean_mse, fold_mse, best_loss_fold, best_model,
                   fitted, ckpt, cv_vars>>

\* ------------------------------------------------- hyperparameter record
\* Python values: int, float (counted in units of 1e-8), str and None.
PyInt(n) == [t |-> "int", v |-> n, s |-> ""]
PyFloat(n) == [t |-> "float", v |-> n, s |-> ""]
PyStr(x) == [t |-> "str", v |-> 0, s |-> x]
PyNone == [t |-> "none", v |-> 0, s |-> ""]

\* json.dumps of a value: a number with or without a fraction part, a quoted
\* string, or null; json.load of the token.
JsonDump(x) ==
    CASE x.t = "int" -> [j |-> "number", point |-> FALSE, v |-> x.v, s |-> ""]
      [] x.t = "float" -> [j |-> "number", point |-> TRUE, v |-> x.v, s |-> ""]
      [] x.t = "str" -> [j |-> "string", point |-> FALSE, v |-> 0, s |-> x.s]
      [] x.t = "none" -> [j |-> "null", point |-> FALSE, v |-> 0, s |-> ""]

JsonLoad(tok) ==
    CASE tok.j = "number" -> IF tok.point THEN PyFloat(tok.v) ELSE PyInt(tok.v)
      [] tok.j = "string" -> PyStr(tok.s)
      [] tok.j = "null" -> PyNone

\* The two ends of each range Optimize.optimize declares for family "lgbr".
LgbrRange ==
    [n_estimators |-> <<PyInt(100), PyInt(200)>>,
     reg_alpha |-> <<PyFloat(1), PyFloat(1000000000)>>,
     reg_lambda |-> <<PyFloat(1), PyFloat(1000000000)>>,
     num_leaves |-> <<PyInt(100), PyInt(500)>>,
     max_depth |-> <<PyInt(4), PyInt(30)>>,
     learning_rate |-> <<PyFloat(1000000), PyFloat(100000000)>>,
     colsample_bytree |-> <<PyFloat(30000000), PyFloat(100000000)>>,
     subsample |-> <<PyFloat(40000000), PyFloat(100000000)>>,
     subsample_freq |-> <<PyInt(1), PyInt(7)>>,
     min_child_samples |-> <<PyInt(5), PyInt(100)>>]

\* The same for family "rf"; max_features is a categorical choice.
RfRange ==
    [n_estimators |-> <<PyInt(100), PyInt(500)>>,
     max_depth |-> <<PyInt(4), PyInt(30)>>,
     min_samples_split |-> <<PyInt(2), PyInt(10)>>]

MaxFeatures == {PyStr("log2"), PyStr("sqrt"), PyNone}

\* trial.params after Optimize.optimize has sampled: the reserved key and the
\* family's suggested hyperparameters (end = 1: every range at its lower end,
\* end = 2: at its upper end).
TrialParams(regressor_name, end, max_features) ==
    IF regressor_name = "lgbr"
    THEN [k \in DOMAIN LgbrRange \cup {"regressor"} |->
            IF k = "regressor" THEN PyStr("lgbr") ELSE LgbrRange[k][end]]
    ELSE [k \in DOMAIN RfRange \cup {"regressor", "max_features"} |->
            IF k = "regressor" THEN PyStr("rf")
            ELSE IF k = "max_features" THEN max_features ELSE RfRange[k][end]]

NoParamFile == [exists |-> FALSE, text |-> <<>>]
NoStudy == [n |-> 0, best_params |-> <<>>, best_value |-> 0]

\* Optimize.write_to_json: json.dumps(best_params) written to the file.
write_to_json(best_params) ==
    [exists |-> TRUE, text |-> [k \in DOMAIN best_params |-> JsonDump(best_params[k])]]

\* Run._get_hyperparams: json.load, then the "regressor" key removed; and the
\* random forest's parameters, which are written in the code.
lgb_params(file) ==
    [k \in DOMAIN file.text \ {"regressor"} |-> JsonLoad(file.text[k])]

rf_params ==
    [n_estimators |-> PyInt(60), max_depth |-> PyInt(15),
     min_samples_split |-> PyInt(80), max_features |-> PyInt(8), n_jobs |-> PyInt(-1)]

\* Run._models: the two estimator objects, lgbm first.
Built(file) ==
    <<[family |-> "LGBMRegressor", params |-> lgb_params(file)],
      [family |-> "RandomForestRegressor", params |-> rf_params]>>

\* ------------------------------------------------- a caller of the trainer
\* The operations of Model called directly, in any order, on one trainer.
other_vars == <<param_file, loss_table, study, est_params, run_pc>>

TrainerInit ==
    /\ \E k \in 1..MaxFolds : ModelInit(<<>>, k)
    /\ fitted = [e \in Estimators |-> Unfitted]
    /\ ckpt = [f \in Families |-> NoFile]
    /\ pred_file = NoPredictions
    /\ pc = "idle"
    /\ cv_i = 1
    /\ cv_fold = 0
    /\ raised = "none"
    /\ last_op = "init"
    /\ message = ""
    /\ runs = <<>>
    /\ loss_table = {}
    /\ est_params = <<>>
    /\ run_pc = "off"
    /\ param_file = NoParamFile
    /\ study = NoStudy

add_model == \E e \in Estimators : add_model_body(e) /\ UNCHANGED other_vars

cross_validate == cross_validate_body /\ UNCHANGED other_vars

\* A fold of an estimator whose fit need not be deterministic.
cross_validate_fold == \E loss \in Losses : Fold(loss) /\ UNCHANGED other_vars

cross_validate_raise == \E stage \in {"fit", "predict"} : Raise(stage) /\ UNCHANGED other_vars

select_best_model == select_best_model_body /\ UNCHANGED other_vars

Init == TrainerInit

Next ==
    \/ add_model
    \/ cross_validate
    \/ cross_validate_fold
    \/ cross_validate_raise
    \/ select_best_model

Spec == Init /\ [][Next]_vars

\* --------------------------------------------- deterministic estimators
\* A fold of an estimator whose fit is deterministic: the loss of an
\* (estimator, fold) pair is the same every time that pair is fitted.
cross_validate_fold_det ==
    /\ pc = "cv"
    /\ \E loss \in Losses :
          /\ \A t \in loss_table : (t[1] = models[cv_i] /\ t[2] = cv_fold) => t[3] = loss
          /\ Fold(loss)
          /\ loss_table' = loss_table \cup {<<models[cv_i], cv_fold, loss>>}
    /\ UNCHANGED <<param_file, study, est_params, run_pc>>

NextDet ==
    \/ add_model
    \/ cross_validate
    \/ cross_validate_fold_det

SpecDet == Init /\ [][NextDet]_vars

\* ------------------------------------------------------------- optimizer
NTrials == 30           \* study.optimize(opt.optimize, n_trials=30)

\* The family behind the reserved key: the class Optimize.optimize instantiates.
FamilyOf(regressor_name) ==
    IF regressor_name = "lgbr" THEN "LGBMRegressor" ELSE "RandomForestRegressor"

\* One trial of study.optimize: Optimize.optimize samples the family and its
\* hyperparameters and returns the validation error; the study (direction
\* "minimize") keeps the first trial of least error as its best trial.
optimize ==
    /\ run_pc = "off"
    /\ ~param_file.exists
    /\ study.n < NTrials
    /\ \E regressor_name \in {"lgbr", "rf"}, end \in 1..2, max_features \in MaxFeatures,
          error \in Losses :
          study' = IF study.n = 0 \/ error < study.best_value
                   THEN [n |-> study.n + 1,
                         best_params |-> TrialParams(regressor_name, end, max_features),
                         best_value |-> error]
                   ELSE [study EXCEPT !.n = study.n + 1]
    /\ UNCHANGED <<model_vars, fitted, ckpt, pred_file, param_file, cv_vars, raised,
                   last_op, loss_table, est_params, run_pc>>

\* The rest of the optimizer's main: study.best_params written by write_to_json.
optimize_write ==
    /\ run_pc = "off"
    /\ ~param_file.exists
    /\ study.n = NTrials
    /\ param_file' = write_to_json(study.best_params)
    /\ UNCHANGED <<model_vars, fitted, ckpt, pred_file, cv_vars, raised, last_op,
                   loss_table, study, est_params, run_pc>>

\* ------------------------------------------------------------ Run.run_cv
\* Run.load_models(add_more_models): the estimator objects are new ones, the
\* lgbm is object 1 and the random forest object 2.
LoadedModels(add_more_models) ==
    IF add_more_models = None THEN <<1, 2>> ELSE <<1, 2, add_more_models>>

\* run_cv, first statement: model = self.load_models().  open() of a missing
\* hyperparameter file raises FileNotFoundError.  The optimizer is not running.
run_cv_load_models ==
    /\ run_pc = "off"
    /\ study.n = 0 \/ param_file.exists
    /\ last_op' = "load_models"
    /\ IF param_file.exists
       THEN /\ est_params' = Built(param_file)
            /\ models' = LoadedModels(None)
            /\ raised' = "none"
            /\ run_pc' = "loaded"
       ELSE /\ raised' = "FileNotFoundError"
            /\ run_pc' = "raised"
            /\ UNCHANGED <<est_params, models>>
    /\ UNCHANGED <<n_folds, mean_mse, fold_mse, best_loss_fold, best_model,
                   predictions, has_predictions, fitted, ckpt, pred_file, param_file,
                   cv_vars, loss_table, study>>

\* run_cv: model.cross_validate()
run_cv_cross_validate ==
    /\ run_pc = "loaded"
    /\ cross_validate_body
    /\ run_pc' = "cv"
    /\ UNCHANGED <<param_file, loss_table, study, est_params>>

\* run_cv: an exception of cross_validate() leaves run_cv.
run_cv_propagate ==
    /\ run_pc = "cv"
    /\ pc = "idle"
    /\ raised # "none"
    /\ run_pc' = "raised"
    /\ UNCHANGED <<model_vars, fitted, file_vars, cv_vars, raised, last_op,
                   loss_table, study, est_params>>

\* run_cv: print(model.best_model()).  best_model is an attribute, None since
\* __init__ (run_cv never calls select_best_model); calling it raises TypeError,
\* so the two statements after it, best_model_fit() and
\* best_model_predictions(), are never reached.
run_cv_print_best_model ==
    /\ run_pc = "cv"
    /\ pc = "idle"
    /\ raised = "none"
    /\ raised' = "TypeError"
    /\ last_op' = "run_cv"
    /\ run_pc' = "raised"
    /\ UNCHANGED <<model_vars, fitted, file_vars, cv_vars, loss_table, study, est_params>>

NextRun ==
    \/ optimize
    \/ optimize_write
    \/ run_cv_load_models
    \/ run_cv_cross_validate
    \/ cross_validate_fold
    \/ cross_validate_raise
    \/ run_cv_propagate
    \/ run_cv_print_best_model

SpecRun == Init /\ [][NextRun]_vars

\* ------------------------------------- a caller of a loaded trainer
\* The trainer Run.load_models() returns, with the hyperparameter file the
\* optimizer wrote for one of its trials.
InitLoaded ==
    /\ \E k \in 1..MaxFolds : ModelInit(LoadedModels(None), k)
    /\ fitted = [e \in Estimators |-> Unfitted]
    /\ ckpt = [f \in Families |-> NoFile]
    /\ pred_file = NoPredictions
    /\ pc = "idle"
    /\ cv_i = 1
    /\ cv_fold = 0
    /\ raised = "none"
    /\ last_op = "load_models"
    /\ message = ""
    /\ runs = <<>>
    /\ loss_table = {}
    /\ run_pc = "off"
    /\ study = [n |-> NTrials, best_params |-> TrialParams("lgbr", 1, PyNone),
                best_value |-> 0]
    /\ param_file = write_to_json(study.best_params)
    /\ est_params = Built(param_file)

best_model_fit == best_model_fit_body /\ UNCHANGED other_vars

best_model_predictions ==
    \E save_predictions \in BOOLEAN, n \in PredLengths :
        best_model_predictions_body(save_predictions, n) /\ UNCHANGED other_vars

NextPredict ==
    \/ cross_validate
    \/ cross_validate_fold
    \/ cross_validate_raise
    \/ select_best_model
    \/ best_model_fit
    \/ best_model_predictions

SpecPredict == InitLoaded /\ [][NextPredict]_vars

\* ------------------------------------------------------------- properties
\* cross_validate() has returned and nothing has been called since.
Completed == pc = "idle" /\ last_op = "cross_validate" /\ raised = "none"

\* The losses of the folds fitted with the estimator at position p of models
\* in the call that has just returned: that call appended Len(models) * n_folds
\* losses to fold_mse, n_folds per position.
OwnLosses(p) ==
    LET base == Len(fold_mse) - Len(models) * n_folds
    IN  SubSeq(fold_mse, base + (p - 1) * n_folds + 1, base + p * n_folds)

Once(p) == \A q \in DOMAIN models : models[q] = models[p] => q = p
FirstAt(e) == CHOOSE i \in DOMAIN models : models[i] = e /\ \A j \in 1..(i - 1) : models[j] # e
MinOf(S) == CHOOSE x \in S : \A y \in S : x <= y

\* C1: after cross_validate() returns, the mean stored for each registered
\* estimator is the arithmetic mean of that estimator's own n_folds fold losses
\* of this call, and of no other estimator's.
C1_MeanOfOwnFolds ==
    Completed =>
        \A p \in DOMAIN models :
            Once(p) => RatEq(Get(mean_mse, models[p]), Mean(OwnLosses(p)))

\* C2: select_best_model() sets best_model to a recorded estimator whose mean
\* is the minimum of the recorded means, and among estimators with that mean
\* to the one registered first.
C2_SelectsFirstMinimum ==
    (last_op = "select_best_model" /\ raised = "none") =>
        /\ best_model \in Keys(mean_mse)
        /\ \A k \in Keys(mean_mse) :
              /\ ~RatLess(Get(mean_mse, k), Get(mean_mse, best_model))
              /\ (k # best_model /\ RatEq(Get(mean_mse, k), Get(mean_mse, best_model)))
                    => FirstAt(best_model) < FirstAt(k)

\* C2's case: two estimators tie at the minimum and the selection has been made.
C2_Witness ==
    /\ last_op = "select_best_model"
    /\ raised = "none"
    /\ \E k \in Keys(mean_mse) :
          k # best_model /\ RatEq(Get(mean_mse, k), Get(mean_mse, best_model))

\* C7: after cross_validate() returns, the checkpoint of every family with a
\* registered estimator holds the fit of a lowest-loss fold among all the folds
\* of that family's estimators (stated for lists of distinct estimator objects,
\* of which several may be of one family).
C7_FamilyCheckpointIsBest ==
    (Completed /\ \A p \in DOMAIN models : Once(p)) =>
        \A p \in DOMAIN models :
            LET fam == Family(models[p])
                folds == {<<q, f>> \in (DOMAIN models) \X (1..n_folds) :
                              Family(models[q]) = fam}
            IN  /\ ckpt[fam].exists
                /\ ckpt[fam].loss = MinOf({OwnLosses(x[1])[x[2]] : x \in folds})

\* C8: in a fold step of cross_validate() the checkpoint is written if and only
\* if the fold's loss is strictly below the loss of every earlier fold of the
\* same fold loop; otherwise the checkpoint files stay as they are and the
\* message is "Loss didn't improve!"; the loss is recorded either way.
C8_SavedIffStrictlyBest ==
    [][(pc = "cv" /\ raised' = "none") =>
          LET loss == fold_mse'[Len(fold_mse')]
              earlier == SubSeq(fold_mse, Len(fold_mse) - cv_fold + 1, Len(fold_mse))
              improved == \A i \in DOMAIN earlier : loss < earlier[i]
              fam == Family(models[cv_i])
          IN  /\ Len(fold_mse') = Len(fold_mse) + 1
              /\ improved <=> message' = "Model saved"
              /\ improved => ckpt' = [ckpt EXCEPT ![fam] =
                                         Dump(models[cv_i], FoldFit(cv_fold), loss)]
              /\ ~improved => (ckpt' = ckpt /\ message' = "Loss didn't improve!")]_vars

\* C9: when fit or predict raises during cross_validate(), the call ends at
\* once: no mean is recorded, the recorded means, losses and checkpoints stay
\* as they are, and no fold is fitted until a new call.
C9_FitErrorSurfaces ==
    [][(pc = "cv" /\ raised' # "none") =>
          /\ pc' = "idle"
          /\ raised' = "FitError"
          /\ mean_mse' = mean_mse
          /\ fold_mse' = fold_mse
          /\ ckpt' = ckpt
          /\ models' = models]_vars

\* C9's case: the second registered estimator has failed after the first one
\* was scored.
C9_Witness ==
    /\ raised = "FitError"
    /\ last_op = "cross_validate"
    /\ pc = "idle"
    /\ cv_i = 2
    /\ Keys(mean_mse) = {models[1]}
    /\ models[2] # models[1]

\* C10: at the start of every fold loop the tracker best_loss_fold is infinity.
C10_TrackerResetAtLoopStart ==
    (pc = "cv" /\ cv_fold = 0) => best_loss_fold = Inf

\* C3: a run of run_cv() in which loading succeeds and no fit fails goes
\* through cross-validation, selection, refit and prediction, and ends with the
\* predictions written by the selected estimator; so run_cv() ends in an
\* exception only when loading or a fit has failed.
C3_RunReachesPredicted ==
    run_pc = "raised" => raised \in {"FileNotFoundError", "FitError"}

\* C4: best_model_predictions(save_predictions=True) with a selected estimator:
\* when the number of predictions differs from the number of test rows it
\* raises and leaves the predictions file as it was; otherwise the file holds
\* one row per test row, the i-th row pairing the i-th test id with the i-th
\* prediction.  With save_predictions=False, or without a selected estimator,
\* the file is left as it was.
C4_PredictionsFile ==
    [][/\ (last_op' = "best_model_predictions(True)" /\ best_model # None) =>
            IF Len(predictions') # NTest
            THEN raised' = "AssertionError" /\ pred_file' = pred_file
            ELSE /\ raised' = "none"
                 /\ pred_file'.exists
                 /\ Len(pred_file'.rows) = NTest
                 /\ \A i \in 1..NTest :
                       pred_file'.rows[i] = <<job_ids[i], predictions'[i]>>
       /\ (last_op' = "best_model_predictions(True)" /\ best_model = None) =>
            pred_file' = pred_file
       /\ last_op' = "best_model_predictions(False)" => pred_file' = pred_file]_vars

\* C4's case: a call with save_predictions=True has failed on a length mismatch
\* while an earlier call's file is in place.
C4_Witness ==
    /\ last_op = "best_model_predictions(True)"
    /\ raised = "AssertionError"
    /\ Len(predictions) # NTest
    /\ pred_file.exists
    /\ Len(pred_file.rows) = NTest

\* C5: the estimator the trainer builds from the record the optimizer wrote
\* is of the family the reserved key names and carries exactly the record's
\* hyperparameters.
C5_RoundTrip ==
    run_pc \in {"loaded", "cv"} =>
        \E i \in DOMAIN est_params :
            /\ est_params[i].family = FamilyOf(study.best_params["regressor"].s)
            /\ est_params[i].params =
                  [k \in DOMAIN study.best_params \ {"regressor"} |-> study.best_params[k]]

\* C6: with deterministic estimators, two completed calls of cross_validate()
\* on the same registered estimators record the same mean for each estimator.
C6_SameMeansEveryRun ==
    \A i, j \in DOMAIN runs :
        runs[i].models = runs[j].models =>
            \A e \in Keys(runs[i].mean_mse) :
                /\ e \in Keys(runs[j].mean_mse)
                /\ RatEq(Get(runs[i].mean_mse, e), Get(runs[j].mean_mse, e))

====
